---- MODULE Spec2Model ----
(***************************************************************************)
(* ChronoMerge PDF: the App component of src/src/App.tsx as a state        *)
(* machine.  State is the four useState cells (files, isMerging,           *)
(* mergedPdfUrl, error) plus the asynchronous mergeFiles executions that   *)
(* are suspended at an await.  Every event handler runs to completion      *)
(* (React batches its setState calls into one render), every await of      *)
(* mergeFiles is a point where other handlers may run.                     *)
(***************************************************************************)
EXTENDS Integers, Sequences, FiniteSets, TLC

VARIABLES
    files,         \* useState, line 32: the items, kept sorted by timestamp
    isMerging,     \* useState, line 33
    mergedPdfUrl,  \* useState, line 34: NoUrl, or the document behind the URL
                   \* (its page groups, and the list it was built from)
    error,         \* useState, line 35
    inflight,      \* the mergeFiles executions suspended at an await: the
                   \* files they closed over (snap), the next item of the
                   \* loop (idx), the page groups added so far (groups)
    nextSeq,       \* the number of the next item addFiles creates
    last,          \* the handler that ran last and, once a merge has
                   \* finished, the batch it merged
    image,         \* an embedded image, lines 102-106
    placed         \* where page.drawImage put it, lines 116-121

vars == <<files, isMerging, mergedPdfUrl, error, inflight, nextSeq, last,
          image, placed>>

(***************************************************************************)
(* Bounds of the model.                                                    *)
(***************************************************************************)
\* files ever accepted by addFiles in one run (also bounds Len(files))
MaxAdded == 2
\* files handed to one addFiles call
MaxBatch == 2
\* mergeFiles executions that may be suspended at once
MaxInflight == 2
\* image widths and heights are DimStep, 2*DimStep, ..., MaxDimK*DimStep
MaxDimK == 8
DimStep == 150

(***************************************************************************)
(* Values.                                                                 *)
(***************************************************************************)
NoError == "null"
SkippedMsg == "Some files were skipped. Only PDF and Image files are supported."
MergeErrorMsg == "An error occurred while merging the files. Please ensure all files are valid."

NoUrl == [groups |-> <<>>, src |-> <<>>, set |-> FALSE]

PdfMime == "application/pdf"

\* A File as the browser hands it over: its declared type, its lastModified,
\* and what its bytes hold: the number of pages they parse to as the declared
\* type (0: the parser of that type rejects them; the bytes of a type that is
\* never parsed are not distinguished), and for an image its native width and
\* height.  The files a user may pick:
File(type, lastModified, content, width, height) ==
    [type |-> type, lastModified |-> lastModified, content |-> content,
     width |-> width, height |-> height]

FileUniverse ==
    { File(PdfMime, 2, 2, 0, 0),                         \* a two-page PDF
      File(PdfMime, 1, 0, 0, 0),                         \* a corrupt PDF
      File("image/jpeg", 2, 1, 8 * DimStep, 2 * DimStep),  \* a JPEG, wider than a page
      File("image/jpg", 1, 0, 0, 0),                     \* an undecodable JPEG
      File("image/png", 1, 1, DimStep, DimStep),         \* a PNG, smaller than a page
      File("image/png", 2, 0, 0, 0),                     \* an undecodable PNG
      File("image/gif", 1, 0, DimStep, DimStep),         \* an image pdf-lib cannot embed
      File("text/plain", 1, 0, 0, 0) }                   \* neither PDF nor image

RECURSIVE SeqsUpTo(_, _)
SeqsUpTo(S, n) ==
    IF n = 0 THEN { <<>> }
    ELSE LET shorter == SeqsUpTo(S, n - 1)
         IN  shorter \cup { Append(s, x) : s \in { t \in shorter : Len(t) = n - 1 }, x \in S }

(***************************************************************************)
(* addFiles, lines 44-67.                                                  *)
(***************************************************************************)
startsWithImage(type) == type \in {"image/jpeg", "image/jpg", "image/png", "image/gif"}

isValidFile(file) == file.type = PdfMime \/ startsWithImage(file.type)

itemType(file) == IF file.type = PdfMime THEN "pdf" ELSE "image"

RECURSIVE filterValid(_)
filterValid(fs) ==
    IF fs = <<>> THEN <<>>
    ELSE IF isValidFile(Head(fs)) THEN <<Head(fs)>> \o filterValid(Tail(fs))
    ELSE filterValid(Tail(fs))

\* .map(file => ({id, file, type, timestamp})).  The Math.random ids are taken
\* to be distinct: an item's id is its number in the order of arrival.
toMetadata(valid, first) ==
    [k \in 1..Len(valid) |->
        [id |-> first + k - 1, file |-> valid[k],
         type |-> itemType(valid[k]), timestamp |-> valid[k].lastModified]]

RECURSIVE insertSortedUnstable(_, _)
insertSortedUnstable(sorted, x) ==
    IF sorted = <<>> THEN <<x>>
    ELSE IF Head(sorted).timestamp - x.timestamp >= 0 THEN <<x>> \o sorted
    ELSE <<Head(sorted)>> \o insertSortedUnstable(Tail(sorted), x)

\* Array.prototype.sort with (a, b) => a.timestamp - b.timestamp: stable, so
\* an element goes after every element that does not compare greater.
RECURSIVE insertSorted(_, _)
insertSorted(sorted, x) ==
    IF sorted = <<>> THEN <<x>>
    ELSE IF Head(sorted).timestamp - x.timestamp > 0 THEN <<x>> \o sorted
    ELSE <<Head(sorted)>> \o insertSorted(Tail(sorted), x)

RECURSIVE sortFrom(_, _)
sortFrom(sorted, rest) ==
    IF rest = <<>> THEN sorted
    ELSE sortFrom(insertSorted(sorted, Head(rest)), Tail(rest))

RECURSIVE sortFromUnstable(_, _)
sortFromUnstable(sorted, rest) ==
    IF rest = <<>> THEN sorted
    ELSE sortFromUnstable(insertSortedUnstable(sorted, Head(rest)), Tail(rest))

\* a sort that does not keep equal timestamps in their order
sortByTimestampUnstable(items) == sortFromUnstable(<<>>, items)

sortByTimestamp(items) == sortFrom(<<>>, items)

\* a report that is never made
skipReportNever(nValid, nNew) == NoError

skipReport(nValid, nNew) == IF nValid < nNew THEN SkippedMsg ELSE NoError

addFiles(newFiles) ==
    LET valid == filterValid(newFiles)
        validFiles == toMetadata(valid, nextSeq)
    IN  /\ nextSeq + Len(valid) - 1 <= MaxAdded
        /\ error' = skipReport(Len(validFiles), Len(newFiles))
        /\ files' = sortByTimestamp(files \o validFiles)
        /\ mergedPdfUrl' = NoUrl
        /\ nextSeq' = nextSeq + Len(valid)
        /\ last' = [op |-> IF Len(validFiles) < Len(newFiles) THEN "addFilesSkipped"
                           ELSE "addFiles", batch |-> <<>>]
        /\ UNCHANGED <<isMerging, inflight, image, placed>>

(***************************************************************************)
(* removeFile, lines 69-77, and the Clear All button, lines 274-279.       *)
(***************************************************************************)
RECURSIVE withoutId(_, _)
withoutId(items, id) ==
    IF items = <<>> THEN <<>>
    ELSE IF Head(items).id # id THEN <<Head(items)>> \o withoutId(Tail(items), id)
    ELSE withoutId(Tail(items), id)

removeFile(id) ==
    /\ \E k \in 1..Len(files) : files[k].id = id
    /\ files' = withoutId(files, id)
    /\ mergedPdfUrl' = NoUrl
    /\ last' = [op |-> "removeFile", batch |-> <<>>]
    /\ UNCHANGED <<isMerging, error, inflight, nextSeq, image, placed>>

\* onClick={() => setFiles([])}; the button is rendered while files.length > 0
clearAll ==
    /\ Len(files) > 0
    /\ files' = <<>>
    /\ last' = [op |-> "clearAll", batch |-> <<>>]
    /\ UNCHANGED <<isMerging, mergedPdfUrl, error, inflight, nextSeq, image, placed>>

(***************************************************************************)
(* Placing an image on its page, lines 113-121.  Lengths are in hundredths *)
(* of a PDF point and exact: a length is a numerator over the placement's  *)
(* denominator den.  addPage() without a size gives pdf-lib's A4 page,     *)
(* 595.28 x 841.89 points.                                                 *)
(***************************************************************************)
Unit == 100
PageWidth == 59528
PageHeight == 84189
Margin == 40

ImageDims == { k * DimStep : k \in 1..MaxDimK }

NoPlacement == [x |-> 0, y |-> 0, width |-> 0, height |-> 0, den |-> 0]

\* a scale-to-fit that never enlarges
scaleToFitCapped(img, w, h) ==
    IF w >= Unit * img.width /\ h >= Unit * img.height
    THEN [num |-> Unit, den |-> 1]
    ELSE IF w * img.height <= h * img.width
    THEN [num |-> w, den |-> img.width]
    ELSE [num |-> h, den |-> img.height]

\* image.scaleToFit(w, h): the factor min(w / image.width, h / image.height),
\* as the fraction num / (Unit * den), w and h being in hundredths
scaleToFit(img, w, h) ==
    IF w * img.height <= h * img.width
    THEN [num |-> w, den |-> img.width]
    ELSE [num |-> h, den |-> img.height]

\* the offset a fixed 20 unit margin would give
centreOffsetMargin(pageLen, dimNum, den) == Margin * Unit * den

\* (width - dims.width) / 2, as a numerator over 2 * den
centreOffset(pageLen, dimNum, den) == pageLen * den - dimNum

placement(img) ==
    LET scale == scaleToFit(img, PageWidth - Margin * Unit, PageHeight - Margin * Unit)
        dimsW == img.width * scale.num
        dimsH == img.height * scale.num
    IN  [x |-> centreOffset(PageWidth, dimsW, scale.den),
         y |-> centreOffset(PageHeight, dimsH, scale.den),
         width |-> 2 * dimsW, height |-> 2 * dimsH, den |-> 2 * scale.den]

(***************************************************************************)
(* mergeFiles, lines 86-135.  An execution is suspended at each await; it  *)
(* reads the files of the render whose handler started it (snap), never    *)
(* the current state.                                                      *)
(***************************************************************************)
\* a button that is never disabled
mergeDisabledNever == FALSE

\* disabled={isMerging}, line 282
mergeDisabled == isMerging

\* a merge that ends without resetting the flag
finallyKeepsFlag(current) == current

\* finally { setIsMerging(false) }, line 133
finallyIsMerging(current) == FALSE

\* an else branch that throws instead of continuing
synthesizeRejectsOther(item) ==
    IF item.type = "pdf"
    THEN IF item.file.content = 0 THEN [kind |-> "throw", n |-> 0]
         ELSE [kind |-> "pages", n |-> item.file.content]
    ELSE IF item.file.type \in {"image/jpeg", "image/jpg", "image/png"}
    THEN IF item.file.content = 0 THEN [kind |-> "throw", n |-> 0]
         ELSE [kind |-> "pages", n |-> 1]
    ELSE [kind |-> "throw", n |-> 0]

\* a loop with no branch for image/png
synthesizeSkipsPng(item) ==
    IF item.type = "pdf"
    THEN IF item.file.content = 0 THEN [kind |-> "throw", n |-> 0]
         ELSE [kind |-> "pages", n |-> item.file.content]
    ELSE IF item.file.type \in {"image/jpeg", "image/jpg"}
    THEN IF item.file.content = 0 THEN [kind |-> "throw", n |-> 0]
         ELSE [kind |-> "pages", n |-> 1]
    ELSE [kind |-> "skip", n |-> 0]

\* What lines 95-111 make of one item: the pages it adds, a skip, or a throw.
\* item.file.arrayBuffer() is taken to resolve: the picked file stays readable.
synthesize(item) ==
    IF item.type = "pdf"
    THEN \* PDFDocument.load throws on bytes that are no PDF; every page is copied
         IF item.file.content = 0 THEN [kind |-> "throw", n |-> 0]
         ELSE [kind |-> "pages", n |-> item.file.content]
    ELSE IF item.file.type = "image/jpeg" \/ item.file.type = "image/jpg"
    THEN \* embedJpg throws on bytes that are no JPEG; one page per image
         IF item.file.content = 0 THEN [kind |-> "throw", n |-> 0]
         ELSE [kind |-> "pages", n |-> 1]
    ELSE IF item.file.type = "image/png"
    THEN IF item.file.content = 0 THEN [kind |-> "throw", n |-> 0]
         ELSE [kind |-> "pages", n |-> 1]
    ELSE [kind |-> "skip", n |-> 0]

\* lines 113-121: the rectangle an image item is drawn in on its new page
drawnOn(item) ==
    IF item.type = "image"
    THEN placement([width |-> item.file.width, height |-> item.file.height])
    ELSE NoPlacement

dropAt(s, k) == [j \in 1..(Len(s) - 1) |-> IF j < k THEN s[j] ELSE s[j + 1]]

\* if (files.length === 0) return;  The button that calls mergeFiles is
\* rendered only while files is non-empty (line 219): this is the function
\* called on an empty list, which changes nothing the component shows.
mergeFilesEmpty ==
    /\ ~mergeDisabled
    /\ Len(files) = 0
    /\ last' = [op |-> "mergeEmpty", batch |-> <<>>]
    /\ UNCHANGED <<files, isMerging, mergedPdfUrl, error, inflight, nextSeq, image, placed>>

\* lines 88-92: up to the first await
mergeFilesStart ==
    /\ ~mergeDisabled
    /\ Len(files) > 0
    /\ Len(inflight) < MaxInflight
    /\ isMerging' = TRUE
    /\ error' = NoError
    /\ inflight' = Append(inflight, [snap |-> files, idx |-> 1, groups |-> <<>>])
    /\ last' = [op |-> "mergeStart", batch |-> <<>>]
    /\ UNCHANGED <<files, mergedPdfUrl, nextSeq, image, placed>>

\* one turn of the for loop, lines 94-123; a throw runs catch and finally
mergeFilesItem(k) ==
    /\ k \in 1..Len(inflight)
    /\ inflight[k].idx <= Len(inflight[k].snap)
    /\ LET m == inflight[k]
           item == m.snap[m.idx]
           r == synthesize(item)
       IN  IF r.kind = "throw"
           THEN /\ error' = MergeErrorMsg
                /\ isMerging' = finallyIsMerging(isMerging)
                /\ inflight' = dropAt(inflight, k)
                /\ last' = [op |-> "mergeFailed", batch |-> m.snap]
                /\ UNCHANGED <<files, mergedPdfUrl, nextSeq, image, placed>>
           ELSE /\ inflight' = [inflight EXCEPT ![k] =
                        [snap |-> m.snap, idx |-> m.idx + 1,
                         groups |-> IF r.kind = "pages"
                                    THEN Append(m.groups, [id |-> item.id,
                                                           timestamp |-> item.timestamp,
                                                           n |-> r.n,
                                                           drawn |-> drawnOn(item)])
                                    ELSE m.groups]]
                /\ UNCHANGED <<files, isMerging, mergedPdfUrl, error, nextSeq, last,
                               image, placed>>

\* lines 125-128 and finally: save, createObjectURL, setMergedPdfUrl
mergeFilesSave(k) ==
    /\ k \in 1..Len(inflight)
    /\ inflight[k].idx = Len(inflight[k].snap) + 1
    /\ mergedPdfUrl' = [groups |-> inflight[k].groups, src |-> inflight[k].snap, set |-> TRUE]
    /\ isMerging' = finallyIsMerging(isMerging)
    /\ inflight' = dropAt(inflight, k)
    /\ last' = [op |-> "mergeDone", batch |-> inflight[k].snap]
    /\ UNCHANGED <<files, error, nextSeq, image, placed>>

\* lines 113-121 for one image, outside any merge
drawImage ==
    /\ placed = NoPlacement
    /\ placed' = placement(image)
    /\ UNCHANGED <<files, isMerging, mergedPdfUrl, error, inflight, nextSeq, last, image>>

(***************************************************************************)
(* Specifications.                                                         *)
(***************************************************************************)
IdSet == 1..MaxAdded

AppInit ==
    /\ files = <<>>
    /\ isMerging = FALSE
    /\ mergedPdfUrl = NoUrl
    /\ error = NoError
    /\ inflight = <<>>
    /\ nextSeq = 1
    /\ last = [op |-> "init", batch |-> <<>>]

Init ==
    /\ AppInit
    /\ image = [width |-> DimStep, height |-> DimStep]
    /\ placed = NoPlacement

Batches == SeqsUpTo(FileUniverse, MaxBatch)

AddFiles == \E newFiles \in Batches : addFiles(newFiles)

RemoveFile == \E id \in IdSet : removeFile(id)

MergeFilesItem == \E k \in 1..MaxInflight : mergeFilesItem(k)

MergeFilesSave == \E k \in 1..MaxInflight : mergeFilesSave(k)

Next ==
    \/ AddFiles
    \/ RemoveFile
    \/ clearAll
    \/ mergeFilesEmpty
    \/ mergeFilesStart
    \/ MergeFilesItem
    \/ MergeFilesSave

Spec == Init /\ [][Next]_vars

\* the placement of one image, for every image size of the bound
ScaleInit ==
    /\ AppInit
    /\ image \in [width : ImageDims, height : ImageDims]
    /\ placed = NoPlacement

ScaleNext == drawImage

ScaleSpec == ScaleInit /\ [][ScaleNext]_vars

\* A suspended mergeFiles resumes when the promise it awaits settles; reading
\* a File and pdf-lib's load, embed, copy and save all settle.
FairSpec == Spec /\ WF_vars(MergeFilesItem) /\ WF_vars(MergeFilesSave)

(***************************************************************************)
(* Vocabulary of the properties.                                           *)
(***************************************************************************)
SupportedTypes == {PdfMime, "image/jpeg", "image/jpg", "image/png"}

isSupported(item) == item.file.type \in SupportedTypes

HasMalformed(batch) ==
    \E k \in 1..Len(batch) : isSupported(batch[k]) /\ batch[k].file.content = 0

HasSkipped(batch) == \E k \in 1..Len(batch) : ~isSupported(batch[k])

NoSupported(batch) == \A k \in 1..Len(batch) : ~isSupported(batch[k])

RECURSIVE TotalPages(_)
TotalPages(groups) ==
    IF groups = <<>> THEN 0 ELSE Head(groups).n + TotalPages(Tail(groups))

RECURSIVE ExpectedPages(_)
ExpectedPages(batch) ==
    IF batch = <<>> THEN 0
    ELSE (IF Head(batch).file.type = PdfMime THEN Head(batch).file.content
          ELSE IF Head(batch).file.type \in SupportedTypes THEN 1
          ELSE 0) + ExpectedPages(Tail(batch))

\* non-decreasing timestamps, equal timestamps in the order of arrival
Chronological(groups) ==
    \A i, j \in 1..Len(groups) :
        i < j => \/ groups[i].timestamp < groups[j].timestamp
                 \/ /\ groups[i].timestamp = groups[j].timestamp
                    /\ groups[i].id < groups[j].id

MergeFinished == last.op \in {"mergeDone", "mergeFailed"}

\* the two final outcomes as the component shows them
OutcomeDone == mergedPdfUrl.set /\ error = NoError
OutcomeFailed == error # NoError

AvailWidth == PageWidth - Margin * Unit
AvailHeight == PageHeight - Margin * Unit

Abs(n) == IF n < 0 THEN -n ELSE n

(***************************************************************************)
(* Properties.                                                             *)
(***************************************************************************)

\* C1: the page groups of a merged document, and of every document under
\* construction, are in non-decreasing timestamp order of their source
\* items, items of equal timestamp in the order in which they were added.
C1_ChronologicalStableOrder ==
    /\ mergedPdfUrl.set => Chronological(mergedPdfUrl.groups)
    /\ \A k \in 1..Len(inflight) : Chronological(inflight[k].groups)

\* a merged document of two items with the same timestamp
C1_Witness ==
    /\ last.op = "mergeDone"
    /\ Len(mergedPdfUrl.groups) = 2
    /\ mergedPdfUrl.groups[1].timestamp = mergedPdfUrl.groups[2].timestamp

\* C2: a merge whose batch holds a malformed PDF, JPEG or PNG ends in
\* failure, with the error set and no merged document on offer, not even an
\* earlier one.
C2_AllOrNothing ==
    (MergeFinished /\ HasMalformed(last.batch))
        => /\ last.op = "mergeFailed"
           /\ error # NoError
           /\ ~mergedPdfUrl.set

C4_EmptyInputFails ==
    (last.op \in {"mergeEmpty", "mergeDone", "mergeFailed"} /\ NoSupported(last.batch))
        => error # NoError /\ ~mergedPdfUrl.set

\* C4, amended: mergeFiles on an empty list returns at once, changing
\* nothing (no merge starts, no error is set, no document is produced); a
\* merge of a non-empty list with no supported item succeeds, sets no error
\* and offers a document to which no page was appended.
C4_EmptyInputAmended ==
    /\ []((MergeFinished /\ last.batch # <<>> /\ NoSupported(last.batch))
            => /\ last.op = "mergeDone"
               /\ mergedPdfUrl.set
               /\ mergedPdfUrl.groups = <<>>
               /\ error # MergeErrorMsg)
    /\ [][last'.op = "mergeEmpty"
            => UNCHANGED <<files, isMerging, mergedPdfUrl, error, inflight>>]_vars

\* a finished merge of a list that holds only unsupported images
C4_Witness ==
    /\ last.op = "mergeDone"
    /\ last.batch # <<>>
    /\ NoSupported(last.batch)
    /\ mergedPdfUrl.set

\* C5, as claimed: every skipped item is reported as skipped (by addFiles,
\* and by a merge that skipped an image), and never as a merge error.
C5_SkippedReported ==
    /\ last.op = "addFilesSkipped" => error = SkippedMsg
    /\ (last.op = "mergeDone" /\ HasSkipped(last.batch)) => error = SkippedMsg
    /\ last.op = "mergeFailed" => HasMalformed(last.batch)

\* C5, amended: addFiles reports the files it rejects with the skipped
\* message; mergeFiles skips an image of an unsupported subtype without any
\* report (a merge that succeeds leaves the error as it was); neither is
\* ever the cause of the merge error.
C5_SkippedAmended ==
    /\ [](last.op = "addFilesSkipped" => error = SkippedMsg)
    /\ [](last.op = "mergeFailed" => HasMalformed(last.batch))
    /\ [](last.op = "mergeDone" => error # MergeErrorMsg)
    /\ [][(last'.op = "mergeDone" /\ Len(inflight') < Len(inflight))
            => error' = error]_vars

\* a successful merge that skipped an image, with nothing reported
C5_Witness ==
    /\ last.op = "mergeDone"
    /\ HasSkipped(last.batch)
    /\ error = NoError

\* C6: the drawn image lies inside the page inset by 20 units on each side
\* and is centred, horizontally and vertically, within 1 unit.
C6_InsideAndCentred ==
    placed # NoPlacement =>
        /\ placed.width <= AvailWidth * placed.den
        /\ placed.height <= AvailHeight * placed.den
        /\ 2 * placed.x >= Margin * Unit * placed.den
        /\ 2 * placed.y >= Margin * Unit * placed.den
        /\ 2 * (placed.x + placed.width) <= (2 * PageWidth - Margin * Unit) * placed.den
        /\ 2 * (placed.y + placed.height) <= (2 * PageHeight - Margin * Unit) * placed.den
        /\ Abs(placed.x - (PageWidth * placed.den - placed.x - placed.width))
              <= Unit * placed.den
        /\ Abs(placed.y - (PageHeight * placed.den - placed.y - placed.height))
              <= Unit * placed.den

\* an image wider than the available area, placed
C6_Witness ==
    /\ placed # NoPlacement
    /\ image.width * Unit > AvailWidth
    /\ placed.height < AvailHeight * placed.den

\* C7: a started merge ends, with isMerging reset, in Done (a document and
\* no error) or Failed (an error), never both and never neither; the
\* document is that of its batch, the error that of the merge; a document
\* or a merge error appears only as a running merge ends.
C7_MergeTerminates ==
    /\ [](MergeFinished => ~isMerging /\ (OutcomeDone # OutcomeFailed))
    /\ [](last.op = "mergeDone"
            => mergedPdfUrl.set /\ mergedPdfUrl.src = last.batch /\ error # MergeErrorMsg)
    /\ [](last.op = "mergeFailed" => error = MergeErrorMsg)
    /\ [][(mergedPdfUrl'.set /\ mergedPdfUrl' # mergedPdfUrl)
            => isMerging /\ Len(inflight') = Len(inflight) - 1]_vars
    /\ [][(error' = MergeErrorMsg /\ error # MergeErrorMsg)
            => isMerging /\ Len(inflight') = Len(inflight) - 1]_vars
    /\ (isMerging ~> (~isMerging /\ MergeFinished))

\* a merge that failed, with the flag reset
C7_Witness == last.op = "mergeFailed" /\ ~isMerging /\ error = MergeErrorMsg

\* C8, as claimed: the image is never drawn larger than its native size.
C8_NeverUpscaled ==
    placed # NoPlacement =>
        /\ placed.width <= image.width * Unit * placed.den
        /\ placed.height <= image.height * Unit * placed.den

\* C8, amended: the scale factor is min((PW-40)/W, (PH-40)/H) with no cap: the
\* drawn image keeps its aspect ratio (width and height are the native ones
\* times one common factor) and fills the available width or the
\* available height, so it is enlarged exactly when its native size is
\* smaller than the available area in both dimensions.
C8_ScaleToFitAmended ==
    placed # NoPlacement =>
        /\ placed.width % image.width = 0
        /\ placed.height % image.height = 0
        /\ placed.width \div image.width = placed.height \div image.height
        /\ \/ placed.width = AvailWidth * placed.den
           \/ placed.height = AvailHeight * placed.den
        /\ (placed.width > image.width * Unit * placed.den)
              <=> (image.width * Unit < AvailWidth /\ image.height * Unit < AvailHeight)

\* a small image, drawn larger than its native size
C8_Witness ==
    /\ placed # NoPlacement
    /\ placed.width > image.width * Unit * placed.den
    /\ placed.height > image.height * Unit * placed.den

\* C9: with no merge in flight, a merged document on offer was built from
\* exactly the current file list.
C9_DocumentMatchesFiles ==
    (~isMerging /\ inflight = <<>> /\ mergedPdfUrl.set) => mergedPdfUrl.src = files

\* C10: at most one mergeFiles execution is in flight, and one is in flight
\* exactly while isMerging is set.
C10_SingleMerge ==
    /\ Len(inflight) <= 1
    /\ isMerging <=> Len(inflight) = 1

\* a merge still running after the list was emptied and refilled
C10_Witness ==
    /\ Len(inflight) = 1
    /\ isMerging
    /\ last.op = "addFiles"
    /\ files # <<>>
    /\ \A i \in 1..Len(files) : \A j \in 1..Len(inflight[1].snap) :
          files[i].id # inflight[1].snap[j].id

====
